---------------------------- MODULE Spec2Model ----------------------------
(***************************************************************************)
(* Model of gis_helpers: the raster chunk planner (raster_chunks.py), the  *)
(* RasterBound value object (raster_bound.py) and the chunked writer       *)
(* create_wgs84_area_raster (wgs84_area.py).                               *)
(*                                                                         *)
(* get_raster_chunks is a Python generator function: calling it only       *)
(* creates a suspended generator; its body (argument validation included)  *)
(* runs when the consumer asks for the first element.                      *)
(*                                                                         *)
(* Python numbers are modelled with their run-time type: an int is exact   *)
(* and of unbounded size, a float is an IEEE 754 binary64 value (sign, 53  *)
(* bit mantissa, binary exponent) and every float operation rounds to      *)
(* nearest, ties to even.  Magnitudes are kept as little-endian sequences  *)
(* of limbs in base 2^15.                                                  *)
(***************************************************************************)
EXTENDS Integers, Sequences, FiniteSets, TLC

(***************************************************************************)
(* Natural numbers of arbitrary size (limb sequences, least significant    *)
(* limb first, no leading zero limb; zero is the empty sequence).          *)
(***************************************************************************)
LimbBits == 15

BASE == 32768

Pow2(k) ==
    <<1, 2, 4, 8, 16, 32, 64, 128, 256, 512, 1024, 2048, 4096, 8192, 16384,
      32768>>[k + 1]

Limb(a, i) == IF i <= Len(a) THEN a[i] ELSE 0

RECURSIVE BTrim(_)
BTrim(a) ==
    IF Len(a) > 0 /\ a[Len(a)] = 0 THEN BTrim(SubSeq(a, 1, Len(a) - 1)) ELSE a

RECURSIVE BFromInt(_)
BFromInt(n) == IF n = 0 THEN << >> ELSE <<n % BASE>> \o BFromInt(n \div BASE)

RECURSIVE BAddFrom(_, _, _, _)
BAddFrom(a, b, i, c) ==
    IF i > Len(a) /\ i > Len(b)
    THEN (IF c = 0 THEN << >> ELSE <<c>>)
    ELSE LET s == Limb(a, i) + Limb(b, i) + c
         IN  <<s % BASE>> \o BAddFrom(a, b, i + 1, s \div BASE)

BAdd(a, b) == BAddFrom(a, b, 1, 0)

RECURSIVE BSubFrom(_, _, _, _)
BSubFrom(a, b, i, br) ==
    IF i > Len(a)
    THEN << >>
    ELSE LET d == Limb(a, i) - Limb(b, i) - br
         IN  <<IF d < 0 THEN d + BASE ELSE d>>
                 \o BSubFrom(a, b, i + 1, IF d < 0 THEN 1 ELSE 0)

\* a - b for a >= b
BSub(a, b) == BTrim(BSubFrom(a, b, 1, 0))

RECURSIVE BCmpFrom(_, _, _)
BCmpFrom(a, b, i) ==
    IF i = 0 THEN 0
    ELSE IF a[i] > b[i] THEN 1
    ELSE IF a[i] < b[i] THEN -1
    ELSE BCmpFrom(a, b, i - 1)

\* -1, 0, 1 as a < b, a = b, a > b
BCmp(a, b) ==
    IF Len(a) > Len(b) THEN 1
    ELSE IF Len(a) < Len(b) THEN -1
    ELSE BCmpFrom(a, b, Len(a))

RECURSIVE BMulSmallFrom(_, _, _, _)
BMulSmallFrom(a, k, i, c) ==
    IF i > Len(a)
    THEN (IF c = 0 THEN << >> ELSE <<c>>)
    ELSE LET p == a[i] * k + c
         IN  <<p % BASE>> \o BMulSmallFrom(a, k, i + 1, p \div BASE)

\* a * k for 0 <= k <= BASE
BMulSmall(a, k) == IF k = 0 THEN << >> ELSE BMulSmallFrom(a, k, 1, 0)

RECURSIVE BFromDigits(_)
\* the number written with the decimal digits d, most significant first
BFromDigits(d) ==
    IF d = << >> THEN << >>
    ELSE BAdd(BMulSmall(BFromDigits(SubSeq(d, 1, Len(d) - 1)), 10),
              BFromInt(d[Len(d)]))

Zeros(n) == [i \in 1..n |-> 0]

ShiftLimbs(a, n) == IF a = << >> THEN << >> ELSE Zeros(n) \o a

RECURSIVE BMulFrom(_, _, _)
BMulFrom(a, b, i) ==
    IF i > Len(b) THEN << >>
    ELSE BAdd(ShiftLimbs(BMulSmall(a, b[i]), i - 1), BMulFrom(a, b, i + 1))

BMul(a, b) == BMulFrom(a, b, 1)

\* a * 2^k
BShl(a, k) ==
    ShiftLimbs(BMulSmall(a, Pow2(k % LimbBits)), k \div LimbBits)

RECURSIVE BDivSmallFrom(_, _, _, _)
BDivSmallFrom(a, d, i, r) ==
    IF i = 0 THEN << >>
    ELSE LET cur == r * BASE + a[i]
         IN  BDivSmallFrom(a, d, i - 1, cur % d) \o <<cur \div d>>

\* floor(a / d) for 1 <= d <= BASE
BDivSmall(a, d) == BTrim(BDivSmallFrom(a, d, Len(a), 0))

\* floor(a / 2^k)
BShr(a, k) ==
    LET n == k \div LimbBits
    IN  IF n >= Len(a) THEN << >>
        ELSE BDivSmall(SubSeq(a, n + 1, Len(a)), Pow2(k % LimbBits))

\* a mod 2^k /= 0
BLowBits(a, k) == BShl(BShr(a, k), k) # a

\* number of bits of a limb
SmallBitLen(n) == Cardinality({k \in 0..LimbBits : Pow2(k) <= n})

BBitLen(a) ==
    IF a = << >> THEN 0
    ELSE (Len(a) - 1) * LimbBits + SmallBitLen(a[Len(a)])

BBit(a, i) == (Limb(a, (i \div LimbBits) + 1) \div Pow2(i % LimbBits)) % 2

BOdd(a) == Limb(a, 1) % 2 = 1

\* one step of binary long division: bring down bit i of a; qr is the pair
\* <<quotient, remainder>> so far
BDivStep(a, b, i, qr) ==
    LET r2 == BAdd(BAdd(qr[2], qr[2]), BFromInt(BBit(a, i)))
        q2 == BAdd(qr[1], qr[1])
    IN  IF BCmp(r2, b) >= 0
        THEN <<BAdd(q2, <<1>>), BSub(r2, b)>>
        ELSE <<q2, r2>>

\* the steps for bits hi down to lo of a (the range is halved to keep the
\* evaluation shallow)
RECURSIVE BDivModRange(_, _, _, _, _)
BDivModRange(a, b, hi, lo, qr) ==
    IF hi < lo THEN qr
    ELSE IF hi = lo THEN BDivStep(a, b, hi, qr)
    ELSE LET mid == (hi + lo) \div 2
             upper == BDivModRange(a, b, hi, mid + 1, qr)
         IN  IF Len(upper) = 2
             THEN BDivModRange(a, b, mid, lo, upper)
             ELSE upper

\* <<floor(a / b), a mod b>> for b > 0: the leading bits of a that cannot
\* reach b are the first remainder, the other bits are brought down
BDivMod(a, b) ==
    LET hi == BBitLen(a) - BBitLen(b)
    IN  IF hi < 0 THEN <<<< >>, a>>
        ELSE BDivModRange(a, b, hi, 0, <<<< >>, BShr(a, hi + 1)>>)

\* one step of the binary square root: set bit i of the root r if the
\* square still fits
BSqrtStep(n, i, r) ==
    LET c == BAdd(r, BShl(<<1>>, i))
    IN  IF BCmp(BMul(c, c), n) <= 0 THEN c ELSE r

RECURSIVE BSqrtRange(_, _, _, _)
BSqrtRange(n, hi, lo, r) ==
    IF hi < lo THEN r
    ELSE IF hi = lo THEN BSqrtStep(n, hi, r)
    ELSE LET mid == (hi + lo) \div 2
             upper == BSqrtRange(n, hi, mid + 1, r)
         IN  IF Len(upper) >= 0
             THEN BSqrtRange(n, mid, lo, upper)
             ELSE upper

\* floor(sqrt(n))
BSqrt(n) == BSqrtRange(n, (BBitLen(n) + 1) \div 2, 0, << >>)

(***************************************************************************)
(* Python ints: s is the sign (-1, 0, 1) and m the magnitude.               *)
(***************************************************************************)
Sign(n) == IF n > 0 THEN 1 ELSE IF n < 0 THEN -1 ELSE 0

Abs(n) == IF n < 0 THEN -n ELSE n

IntMake(s, m) == [t |-> "int", s |-> IF m = << >> THEN 0 ELSE s, m |-> m]

\* the int n
PyInt(n) == IntMake(Sign(n), BFromInt(Abs(n)))

\* the positive int written with the decimal digits d
PyIntOfDigits(d) == IntMake(1, BFromDigits(d))

\* the exact sum of as * am and bs * bm (both scaled alike) as
\* <<sign, magnitude>>; c is BCmp(am, bm)
SignedSum(as, am, bs, bm, c) ==
    IF as = bs THEN <<as, BAdd(am, bm)>>
    ELSE IF c = 0 THEN <<0, << >>>>
    ELSE IF c > 0 THEN <<as, BSub(am, bm)>>
    ELSE <<bs, BSub(bm, am)>>

IntOfSum(sm) == IntMake(sm[1], sm[2])

IntNeg(a) == [a EXCEPT !.s = -a.s]

IntAdd(a, b) == IntOfSum(SignedSum(a.s, a.m, b.s, b.m, BCmp(a.m, b.m)))

IntSub(a, b) == IntAdd(a, IntNeg(b))

IntMul(a, b) == IntMake(a.s * b.s, BMul(a.m, b.m))

\* -1, 0, 1 as a < b, a = b, a > b
IntCmp(a, b) ==
    IF a.s # b.s THEN (IF a.s > b.s THEN 1 ELSE -1)
    ELSE a.s * BCmp(a.m, b.m)

(***************************************************************************)
(* IEEE 754 binary64 values: s is the sign (-1, 0, 1), m the 53 bit        *)
(* mantissa (2^52 <= m < 2^53, empty for zero) and e the exponent of its   *)
(* last bit: the value is s * m * 2^e.  Subnormals, infinities and NaN do  *)
(* not occur for the magnitudes handled here.                              *)
(***************************************************************************)
MantBits == 53

FZero == [t |-> "float", s |-> 0, m |-> << >>, e |-> 0]

FMake(s, m, e) == [t |-> "float", s |-> s, m |-> m, e |-> e]

\* a rounded mantissa q that has grown to 54 bits is renormalised
FNormalize(s, q, e) ==
    IF BBitLen(q) > MantBits THEN FMake(s, BShr(q, 1), e + 1)
    ELSE FMake(s, q, e)

\* round to nearest, ties to even: q is the mantissa cut to 53 bits, half
\* the first bit cut off, rest whether anything follows that bit
FRoundBits(s, q, e, half, rest) ==
    FNormalize(s, IF half /\ (rest \/ BOdd(q)) THEN BAdd(q, <<1>>) ELSE q, e)

\* n has k bits more than a mantissa holds
FRoundCut(s, n, e, sticky, k) ==
    FRoundBits(s, BShr(n, k), e + k, BBit(n, k - 1) = 1,
               sticky \/ BLowBits(n, k - 1))

FRoundLen(s, n, e, sticky, len) ==
    IF len <= MantBits
    THEN FMake(s, BShl(n, MantBits - len), e - (MantBits - len))
    ELSE FRoundCut(s, n, e, sticky, len - MantBits)

\* the double nearest to s * n * 2^e (ties to even); sticky says that the
\* exact value is a little more than n * 2^e (by less than 2^e)
FRound(s, n, e, sticky) ==
    IF n = << >> THEN FZero ELSE FRoundLen(s, n, e, sticky, BBitLen(n))

\* float(n) for an int n
FFromInt(n) == FRound(n.s, n.m, 0, FALSE)

FRoundQuotient(s, qr, e) == FRound(s, qr[1], e, qr[2] # << >>)

\* a / b for b /= 0
FDiv(a, b) ==
    IF a.s = 0 THEN FZero
    ELSE FRoundQuotient(a.s * b.s, BDivMod(BShl(a.m, MantBits + 3), b.m),
                        a.e - b.e - (MantBits + 3))

\* a * b
FMul(a, b) ==
    IF a.s = 0 \/ b.s = 0 THEN FZero
    ELSE FRound(a.s * b.s, BMul(a.m, b.m), a.e + b.e, FALSE)

FNeg(a) == [a EXCEPT !.s = -a.s]

FRoundSum(sm, e) == FRound(sm[1], sm[2], e, FALSE)

\* mantissas am and bm are aligned to the exponent e
FAddAligned(as, am, bs, bm, e) ==
    FRoundSum(SignedSum(as, am, bs, bm, BCmp(am, bm)), e)

FAddAt(a, b, emin) ==
    FAddAligned(a.s, BShl(a.m, a.e - emin), b.s, BShl(b.m, b.e - emin), emin)

\* a + b
FAdd(a, b) ==
    IF a.s = 0 THEN b
    ELSE IF b.s = 0 THEN a
    ELSE FAddAt(a, b, IF a.e < b.e THEN a.e ELSE b.e)

\* a - b
FSub(a, b) == FAdd(a, FNeg(b))

\* -1, 0, 1 as a < b, a = b, a > b
FCmp(a, b) ==
    IF a.s # b.s THEN (IF a.s > b.s THEN 1 ELSE -1)
    ELSE IF a.s = 0 THEN 0
    ELSE IF a.e # b.e THEN (IF a.e > b.e THEN a.s ELSE -a.s)
    ELSE a.s * BCmp(a.m, b.m)

\* a has no fractional part
FIsIntegral(a) == a.s = 0 \/ a.e >= 0 \/ ~BLowBits(a.m, -a.e)

\* the integer part of |a|
FTruncMagnitude(a) ==
    IF a.s = 0 THEN << >>
    ELSE IF a.e >= 0 THEN BShl(a.m, a.e)
    ELSE BShr(a.m, -a.e)

\* int(a): a truncated towards zero, an int
FTrunc(a) == IntMake(a.s, FTruncMagnitude(a))

\* math.ceil(a), an int
FCeil(a) ==
    IF FIsIntegral(a) \/ a.s < 0 THEN FTrunc(a)
    ELSE IntMake(1, BAdd(FTruncMagnitude(a), <<1>>))

\* the float a against the int n, exactly: -1, 0, 1 as a < n, a = n, a > n
FCmpInt(a, n) ==
    IF a.s # n.s THEN (IF a.s > n.s THEN 1 ELSE -1)
    ELSE IF a.s = 0 THEN 0
    ELSE IF a.e >= 0 THEN a.s * BCmp(BShl(a.m, a.e), n.m)
    ELSE a.s * BCmp(a.m, BShl(n.m, -a.e))

\* the quotient of two ints is rounded once, from the exact quotient
IntTrueDivAt(a, b, k) ==
    FRoundQuotient(a.s * b.s, BDivMod(BShl(a.m, k), b.m), -k)

\* a / b for ints a and b /= 0
IntTrueDiv(a, b) ==
    IF a.s = 0 THEN FZero
    ELSE IntTrueDivAt(a, b, MantBits + 3 + BBitLen(b.m))

FRoundRoot(n, r, e) == FRound(1, r, e, BMul(r, r) # n)

FSqrtOf(n, e) == FRoundRoot(n, BSqrt(n), e)

\* the mantissa is widened by k bits, k chosen to leave an even exponent
FSqrtWiden(a, k) == FSqrtOf(BShl(a.m, k), (a.e - k) \div 2)

\* math.sqrt(a) for a >= 0
FSqrt(a) ==
    IF a.s = 0 THEN FZero
    ELSE FSqrtWiden(a, IF a.e % 2 = 0 THEN MantBits + 3 ELSE MantBits + 4)

(***************************************************************************)
(* Python numbers with their run-time type, an int or a float as above.    *)
(* Arithmetic on two ints is exact; "/" yields a float; an operation with  *)
(* one float operand converts the other operand to float first; a          *)
(* comparison of an int with a float is exact.                             *)
(***************************************************************************)
ToFloat(x) == IF x.t = "int" THEN FFromInt(x) ELSE x

PyMul(a, b) ==
    IF a.t = "int" /\ b.t = "int" THEN IntMul(a, b)
    ELSE FMul(ToFloat(a), ToFloat(b))

PySub(a, b) ==
    IF a.t = "int" /\ b.t = "int" THEN IntSub(a, b)
    ELSE FSub(ToFloat(a), ToFloat(b))

\* a / b (true division) for b /= 0
PyTrueDiv(a, b) ==
    IF a.t = "int" /\ b.t = "int" THEN IntTrueDiv(a, b)
    ELSE FDiv(ToFloat(a), ToFloat(b))

PyCmp(a, b) ==
    IF a.t = "int"
    THEN (IF b.t = "int" THEN IntCmp(a, b) ELSE -FCmpInt(b, a))
    ELSE (IF b.t = "int" THEN FCmpInt(a, b) ELSE FCmp(a, b))

PyGt(a, b) == PyCmp(a, b) > 0

PyLt(a, b) == PyCmp(a, b) < 0

PyLe(a, b) == PyCmp(a, b) <= 0

PyIsNegative(a) == a.s < 0

PyIsPositive(a) == a.s > 0

\* math.ceil(a)
PyCeil(a) == IF a.t = "int" THEN a ELSE FCeil(a)

\* math.sqrt(a) for a >= 0 (a negative argument raises ValueError)
PySqrt(a) == FSqrt(ToFloat(a))

\* int(a)
PyTruncInt(a) == IF a.t = "int" THEN a ELSE FTrunc(a)

(***************************************************************************)
(* raster_bound.py: the RasterBound value object.                          *)
(***************************************************************************)
RasterBound(x_off, y_off, x_size, y_size) ==
    [x_off |-> x_off, y_off |-> y_off, x_size |-> x_size, y_size |-> y_size]

(***************************************************************************)
(* raster_chunks.py                                                        *)
(***************************************************************************)
\* chunk if remaining > chunk else remaining
ClipToRemaining(remaining, chunk) ==
    IF PyGt(remaining, chunk) THEN chunk ELSE remaining

\* x_size = chunk_width if (width - x_off) > chunk_width else width - x_off
ChunkSize(total, off, chunk) == ClipToRemaining(PySub(total, off), chunk)

ChunkBoundsAt(width, height, chunk_width, chunk_height, x_off, y_off) ==
    RasterBound(x_off, y_off, ChunkSize(width, x_off, chunk_width),
                ChunkSize(height, y_off, chunk_height))

get_chunk_bounds(width, height, chunk_width, chunk_height, row, col) ==
    ChunkBoundsAt(width, height, chunk_width, chunk_height,
                  PyMul(PyInt(col), chunk_width),
                  PyMul(PyInt(row), chunk_height))

\* the guard with "width < 0" for "width <= 0"
InvalidChunkArgsZeroWidth(width, height, chunk_width, chunk_height) ==
    \/ PyIsNegative(width)
    \/ PyLe(height, PyInt(0))
    \/ PyLe(chunk_width, PyInt(0))
    \/ PyLe(chunk_height, PyInt(0))

\* the test that guards the body of get_raster_chunks
InvalidChunkArgs(width, height, chunk_width, chunk_height) ==
    \/ PyLe(width, PyInt(0))
    \/ PyLe(height, PyInt(0))
    \/ PyLe(chunk_width, PyInt(0))
    \/ PyLe(chunk_height, PyInt(0))

\* math.ceil(size / chunk)
ChunkCount(size, chunk) == PyCeil(PyTrueDiv(size, chunk))

NoGen == [state |-> "none"]

\* Calling get_raster_chunks runs none of its body: the result is a
\* generator suspended before its first statement.
NewGenerator(width, height, chunk_width, chunk_height) ==
    [state |-> "created", width |-> width, height |-> height,
     chunk_width |-> chunk_width, chunk_height |-> chunk_height,
     n_cols |-> PyInt(0), n_rows |-> PyInt(0), col |-> 0, row |-> 0]

YieldAt(g, col, row) ==
    [out |-> "yield",
     gen |-> [g EXCEPT !.state = "suspended", !.col = col, !.row = row],
     value |-> get_chunk_bounds(g.width, g.height, g.chunk_width,
                                g.chunk_height, row, col)]

StopAt(g) == [out |-> "stop", gen |-> [g EXCEPT !.state = "finished"]]

\* the loop position after the yield at (col, row): rows run in the inner
\* loop, columns in the outer loop
NextPosition(g) ==
    IF PyLt(PyInt(g.row + 1), g.n_rows) THEN <<g.col, g.row + 1>>
    ELSE <<g.col + 1, 0>>

\* entering "for col in range(0, n_cols): for row in range(0, n_rows)"
EnterLoops(g) ==
    IF PyIsPositive(g.n_cols) /\ PyIsPositive(g.n_rows)
    THEN YieldAt(g, 0, 0)
    ELSE StopAt(g)

\* resuming after a yield: the loops move to position pos or run out
ContinueLoops(g, pos) ==
    IF PyLt(PyInt(pos[1]), g.n_cols) THEN YieldAt(g, pos[1], pos[2])
    ELSE StopAt(g)

\* One next() on the generator: the body runs from where it was suspended
\* to the next yield, to its end (StopIteration) or to a raise.
ResumeGenerator(g) ==
    IF g.state = "created"
    THEN IF InvalidChunkArgs(g.width, g.height, g.chunk_width, g.chunk_height)
         THEN [out |-> "ValueError", gen |-> [g EXCEPT !.state = "finished"]]
         ELSE EnterLoops([g EXCEPT
                            !.n_cols = ChunkCount(g.width, g.chunk_width),
                            !.n_rows = ChunkCount(g.height, g.chunk_height)])
    ELSE IF g.state = "suspended" THEN ContinueLoops(g, NextPosition(g))
    ELSE StopAt(g)

Float1e6 == FFromInt(PyInt(1000000))

Raise(exception) == [raise |-> exception, gen |-> NoGen]

Return(g) == [raise |-> "none", gen |-> g]

\* size = int(math.sqrt(max_pixels))
TileSize(max_pixels) == PyTruncInt(PySqrt(max_pixels))

SquareTiles(width, height, size) ==
    NewGenerator(width, height, size, size)

\* the lines after max_pixels is computed; math.sqrt raises ValueError on a
\* negative argument
PlanWithMaxPixels(width, height, max_pixels) ==
    IF PyGt(max_pixels, PyMul(width, height))
    THEN Return(NewGenerator(width, height, width, height))
    ELSE IF PyIsNegative(max_pixels) THEN Raise("ValueError")
    ELSE Return(SquareTiles(width, height, TileSize(max_pixels)))

\* the lines after divisor is computed
PlanWithDivisor(width, height, memory_limit_MB, divisor) ==
    IF PyLe(divisor, PyInt(0)) THEN Raise("ValueError")
    ELSE PlanWithMaxPixels(width, height,
                           PyTrueDiv(memory_limit_MB, divisor))

\* get_memory_limited_raster_chunks: what the call returns or raises
get_memory_limited_raster_chunks(n_rasters, width, height, memory_limit_MB, bytes_per_pixel) ==
    PlanWithDivisor(width, height, memory_limit_MB,
        PyTrueDiv(PyMul(n_rasters, bytes_per_pixel), Float1e6))

(***************************************************************************)
(* Inputs.  MaxDim bounds the raster and chunk dimensions of the small     *)
(* direct calls and of the source raster of create_wgs84_area_raster; -1   *)
(* and 0 are the invalid arguments.  The memory limited planner is driven  *)
(* with values that reach each of its branches: budgets above, equal to    *)
(* and below the raster size, below one pixel, and non-positive arguments. *)
(* Python ints are unbounded: the large calls have arguments beyond 2^53,  *)
(* where a float no longer holds every integer.                            *)
(***************************************************************************)
MaxDim == 4

Dims == -1..MaxDim

SmallChunkCalls ==
    {<<PyInt(w), PyInt(h), PyInt(cw), PyInt(ch)>> : w, h, cw, ch \in Dims}

\* get_raster_chunks(2^53 + 1, 1, 2^52, 1)
LargeChunkCalls ==
    {<<PyIntOfDigits(<<9, 0, 0, 7, 1, 9, 9, 2, 5, 4, 7, 4, 0, 9, 9, 3>>),
       PyInt(1),
       PyIntOfDigits(<<4, 5, 0, 3, 5, 9, 9, 6, 2, 7, 3, 7, 0, 4, 9, 6>>),
       PyInt(1)>>}

ChunkCalls == SmallChunkCalls \cup LargeChunkCalls

NRastersValues == {-1, 1, 70000, 250000, 1000001}

BytesPerPixelValues == {-4, 0, 4}

MemoryLimitValues == {-1, 0, 1, 4, 63}

MemDims == {-1, 0, 2, 15}

SmallMemoryCalls ==
    {<<PyInt(n), PyInt(w), PyInt(h), PyInt(m), PyInt(b)>> :
        n \in NRastersValues, w \in MemDims, h \in MemDims,
        m \in MemoryLimitValues, b \in BytesPerPixelValues}

\* <<n_rasters, width, height, memory_limit_MB, bytes_per_pixel>>
LargeMemoryCalls ==
    {<<PyInt(31), PyInt(280000508), PyInt(70000127),
       PyIntOfDigits(<<6, 0, 7, 6, 0, 2, 2, 0, 4, 7, 2, 2>>), PyInt(1)>>,
     <<PyInt(3),
       PyIntOfDigits(<<1, 8, 0, 1, 8, 4, 5, 8, 0, 5, 1, 6, 6, 6, 6, 6, 7>>),
       PyInt(1),
       PyIntOfDigits(<<5, 4, 0, 5, 5, 3, 7, 4, 1, 5, 5>>), PyInt(1)>>,
     <<PyIntOfDigits(<<1, 0, 0, 0, 0, 0, 0, 0, 0, 0, 0, 0, 0, 0, 0, 0, 1>>),
       PyInt(2), PyInt(2),
       PyIntOfDigits(<<1, 0, 0, 0, 0, 0, 0, 0, 0, 0, 0>>), PyInt(1)>>}

MemoryCalls == SmallMemoryCalls \cup LargeMemoryCalls

MaxChunkSizes == 0..(2 * MaxDim)

\* what is found at a raster path: nothing on disk, something gdal.Open
\* cannot open, or a dataset
SourceStates == {"missing", "unreadable", "dataset"}

\* a call of create_empty_raster and what it meets:
\*   exceptions   the gdal bindings raise RuntimeError (gdal.UseExceptions)
\*                where they otherwise return None
\*   source       what is at source_path
\*   driver_name  not given ("source": the source's driver is used), or the
\*                name of a registered or of an unregistered driver
\*   data_type    not given ("source": the source band's type is used), or
\*                a numpy type with or without a gdal type code
\*   band         the source has no band raster_band ("absent"), or the
\*                band has no nodata value, or it has one
\*   nodata       a nodata value is given
\*   creates      driver.Create makes the destination file
CreateCalls ==
    [exceptions : BOOLEAN, source : SourceStates,
     driver_name : {"source", "registered", "unregistered"},
     data_type : {"source", "convertable", "unconvertable"},
     band : {"absent", "no_nodata", "nodata"},
     nodata : BOOLEAN, creates : BOOLEAN]

\* the create_empty_raster call of create_wgs84_area_raster:
\* data_type=np.float32, nodata=-1.0, driver_name="GTiff"
AreaRasterCreateCalls ==
    {c \in CreateCalls : /\ c.driver_name # "source"
                         /\ c.data_type = "convertable"
                         /\ c.band = "nodata"
                         /\ c.nodata}

\* the direct calls of get_raster_chunks of a caller that also does raster
\* I/O, and the number of write_output calls it makes
MaxCallerDim == 2

CallerChunkCalls ==
    {<<PyInt(w), PyInt(h), PyInt(cw), PyInt(ch)>> :
        w, h, cw, ch \in 0..MaxCallerDim}

MaxWrites == 2

(***************************************************************************)
(* State.                                                                  *)
(*   call     the operation the caller invoked, with its arguments         *)
(*   pc       the caller's position: "idle", "iterating" (it holds the     *)
(*            generator and consumes it), "planned" and "writing" (inside  *)
(*            create_wgs84_area_raster, before and after                   *)
(*            create_empty_raster), "done", "raised"                       *)
(*   gen      the generator object returned by get_raster_chunks           *)
(*   yielded  the RasterBound objects the consumer has received            *)
(*   error    the last exception that reached the caller                   *)
(*   file     the output raster: whether it exists, and the write_output   *)
(*            calls made on it since it was created                        *)
(***************************************************************************)
VARIABLES call, pc, gen, yielded, error, file

vars == <<call, pc, gen, yielded, error, file>>

NoFile == [exists |-> FALSE, writes |-> << >>]

Init ==
    /\ call = [op |-> "none"]
    /\ pc = "idle"
    /\ gen = NoGen
    /\ yielded = << >>
    /\ error = "none"
    /\ file = NoFile

\* chunks = get_raster_chunks(width, height, chunk_width, chunk_height)
CallGetRasterChunks(width, height, chunk_width, chunk_height) ==
    /\ pc = "idle"
    /\ call' = [op |-> "get_raster_chunks", width |-> width,
                height |-> height, chunk_width |-> chunk_width,
                chunk_height |-> chunk_height]
    /\ gen' = NewGenerator(width, height, chunk_width, chunk_height)
    /\ pc' = "iterating"
    /\ UNCHANGED <<yielded, error, file>>

\* the call returned a generator or raised
Returned(r) ==
    /\ gen' = r.gen
    /\ error' = r.raise
    /\ pc' = IF r.raise = "none" THEN "iterating" ELSE "raised"

\* chunks = get_memory_limited_raster_chunks(...)
CallGetMemoryLimitedRasterChunks(n_rasters, width, height, memory_limit_MB, bytes_per_pixel) ==
    /\ pc = "idle"
    /\ call' = [op |-> "get_memory_limited_raster_chunks",
                n_rasters |-> n_rasters, width |-> width, height |-> height,
                memory_limit_MB |-> memory_limit_MB,
                bytes_per_pixel |-> bytes_per_pixel]
    /\ Returned(get_memory_limited_raster_chunks(n_rasters, width, height,
                    memory_limit_MB, bytes_per_pixel))
    /\ UNCHANGED <<yielded, file>>

\* what one next() hands to the loop that consumes the generator: an
\* element (the loop goes on at position loop), the end, or an exception
Deliver(r, loop) ==
    /\ gen' = r.gen
    /\ yielded' = IF r.out = "yield" THEN Append(yielded, r.value)
                  ELSE yielded
    /\ error' = IF r.out = "ValueError" THEN "ValueError" ELSE error
    /\ pc' = IF r.out = "yield" THEN loop
             ELSE IF r.out = "stop" THEN "done"
             ELSE "raised"

\* the consumer asks the generator for its next element
ConsumeNext ==
    /\ pc = "iterating"
    /\ Deliver(ResumeGenerator(gen), "iterating")
    /\ UNCHANGED <<call, file>>

\* what a gdal binding call that fails gives: RuntimeError with exceptions
\* enabled, else None, on which the code then raises otherwise
LibraryFailure(exceptions, otherwise) == IF exceptions THEN "RuntimeError" ELSE otherwise

\* create_wgs84_area_raster up to the call of get_raster_chunks.  source is
\* what gdal.Open(src_path) meets: without a dataset it raises RuntimeError
\* or returns None, and src.GetGeoTransform() raises AttributeError.  An
\* opened raster reports x_size >= 1 columns and y_size >= 1 rows; skew
\* says that its geotransform has a rotation term.  wgs84_area.py imports
\* raster_chunks and gdal_helpers under their former package name
\* (spatial_inventory_rollback.raster); they are the modules of this package.
\* area_vector has y_size entries, so area_vector.shape[0] is y_size.
ClampToRows(max_chunk_size, y_size) == IF max_chunk_size < y_size THEN y_size ELSE max_chunk_size

CallCreateWgs84AreaRaster(exceptions, source, x_size, y_size, skew, max_chunk_size) ==
    /\ pc = "idle"
    /\ call' = [op |-> "create_wgs84_area_raster", source |-> source,
                x_size |-> x_size, y_size |-> y_size, skew |-> skew,
                max_chunk_size |-> max_chunk_size]
    /\ IF source # "dataset"
       THEN /\ error' = LibraryFailure(exceptions, "AttributeError")
            /\ pc' = "raised"
            /\ gen' = gen
       ELSE IF skew
       THEN /\ error' = "ValueError"
            /\ pc' = "raised"
            /\ gen' = gen
       ELSE /\ gen' = NewGenerator(PyInt(x_size), PyInt(y_size),
                           PyTrueDiv(PyInt(ClampToRows(max_chunk_size, y_size)),
                                     PyInt(y_size)),
                           PyInt(y_size))
            /\ pc' = "planned"
            /\ error' = error
    /\ UNCHANGED <<yielded, file>>

\* gdal_helpers.__open(path): the exception it raises, or "none"
OpenDataset(exceptions, found) ==
    IF found = "missing" THEN "ValueError"
    ELSE IF found = "unreadable" THEN LibraryFailure(exceptions, "ValueError")
    ELSE "none"

\* source_dataset.GetRasterBand(raster_band), followed by an attribute access
SourceBand(c) ==
    IF c.band = "absent" THEN LibraryFailure(c.exceptions, "AttributeError")
    ELSE "none"

\* the gdal data type: of the given numpy type, or of the source band
GdalDataType(c) ==
    IF c.data_type = "unconvertable" THEN "ValueError"
    ELSE IF c.data_type = "source" THEN SourceBand(c)
    ELSE "none"

\* driver.Create(...) and the first use of its result; an unregistered
\* driver name gives the driver None
DriverCreate(c) ==
    IF c.driver_name = "unregistered" THEN "AttributeError"
    ELSE IF ~c.creates THEN LibraryFailure(c.exceptions, "AttributeError")
    ELSE "none"

\* setting the nodata value of the new dataset: the given one, or the one
\* of the source band (None, which SetNoDataValue refuses, when it has none)
SetNoData(c) ==
    IF c.nodata THEN "none"
    ELSE IF c.band = "absent" THEN SourceBand(c)
    ELSE IF c.band = "no_nodata" THEN "TypeError"
    ELSE "none"

\* gdal_helpers.create_empty_raster(source_path, dest_path, ...): the
\* exception it raises ("none" when it returns), and whether it made the
\* destination file; what follows driver.Create runs with the file on disk
create_empty_raster(c) ==
    IF OpenDataset(c.exceptions, c.source) # "none"
    THEN [raise |-> OpenDataset(c.exceptions, c.source), created |-> FALSE]
    ELSE IF GdalDataType(c) # "none"
    THEN [raise |-> GdalDataType(c), created |-> FALSE]
    ELSE IF DriverCreate(c) # "none"
    THEN [raise |-> DriverCreate(c), created |-> FALSE]
    ELSE [raise |-> SetNoData(c), created |-> TRUE]

\* the output raster after a create_empty_raster call: a new, empty file
\* when it was created
FileAfterCreate(r) == IF r.created THEN [exists |-> TRUE, writes |-> << >>] ELSE file

\* gdal_helpers.write_output(path, data, x_off, y_off): the exception it
\* raises, or "none" when band.WriteArray was called; opens says that
\* gdal.Open(path, GA_Update) gives a dataset
write_output(exceptions, on_disk, opens) ==
    IF ~on_disk THEN OpenDataset(exceptions, "missing")
    ELSE IF ~opens THEN OpenDataset(exceptions, "unreadable")
    ELSE "none"

\* the call of create_empty_raster in create_wgs84_area_raster; its
\* exception ends the run
CreateRaised(r) ==
    /\ file' = FileAfterCreate(r)
    /\ pc' = IF r.raise = "none" THEN "writing" ELSE "raised"
    /\ error' = IF r.raise = "none" THEN error ELSE r.raise

CreateEmptyRaster(c) ==
    /\ pc = "planned"
    /\ CreateRaised(create_empty_raster(c))
    /\ UNCHANGED <<call, gen, yielded>>

\* one turn of "for chunk in chunks: write_output(...)"
\* gdal_helpers.write_output(out_path, data, x_off=chunk.x_off, y_off=0)
\* with data = np.repeat(area_vector_col, chunk.x_size, axis=1)
WriteOutput(r) ==
    file' = IF r.out = "yield"
            THEN [file EXCEPT !.writes = Append(@,
                     [x_off |-> r.value.x_off, y_off |-> PyInt(0),
                      x_size |-> r.value.x_size])]
            ELSE file

WriteDelivered(r) == Deliver(r, "writing") /\ WriteOutput(r)

\* the chunk was received and the loop body raised e
ChunkRaised(r, e) ==
    /\ gen' = r.gen
    /\ yielded' = Append(yielded, r.value)
    /\ error' = e
    /\ pc' = "raised"
    /\ file' = file

\* np.repeat(area_vector_col, chunk.x_size, axis=1) is library code: given a
\* float count it raises TypeError (the count cannot be cast to an integer
\* safely) in some numpy versions and goes on in others.  Every chunk of a
\* run has a float x_size, so a library that raises does so on the first
\* chunk: the chunk has been received and write_output is never called.
RepeatRejected(r) ==
    /\ file.writes = << >>
    /\ r.out = "yield"
    /\ r.value.x_size.t = "float"
    /\ ChunkRaised(r, "TypeError")

\* the loop turn for what next() gave (r), the outcome w of write_output
\* and a numpy that casts a float count (casts) or refuses it
WriteTurn(r, w, casts) ==
    IF r.out # "yield" THEN WriteDelivered(r)
    ELSE IF r.value.x_size.t = "float" /\ ~casts THEN RepeatRejected(r)
    ELSE IF w # "none" THEN ChunkRaised(r, w)
    ELSE WriteDelivered(r)

WriteNextChunk(exceptions, opens, casts) ==
    /\ pc = "writing"
    /\ WriteTurn(ResumeGenerator(gen), write_output(exceptions, file.exists, opens), casts)
    /\ UNCHANGED call

\* a caller that holds a chunk generator calls create_empty_raster; the
\* exception, if any, reaches the caller, which still holds the generator
CallCreateEmptyRasterResult(r) ==
    /\ file' = FileAfterCreate(r)
    /\ error' = IF r.raise = "none" THEN error ELSE r.raise

CallCreateEmptyRaster(c) ==
    /\ pc = "iterating"
    /\ CallCreateEmptyRasterResult(create_empty_raster(c))
    /\ UNCHANGED <<call, pc, gen, yielded>>

\* ... and calls write_output for the chunk it received last:
\* write_output(path, data, chunk.x_off, chunk.y_off) with data of
\* chunk.x_size columns
CallWriteOutputResult(chunk, w) ==
    /\ file' = IF w = "none"
               THEN [file EXCEPT !.writes = Append(@,
                        [x_off |-> chunk.x_off, y_off |-> chunk.y_off,
                         x_size |-> chunk.x_size])]
               ELSE file
    /\ error' = IF w = "none" THEN error ELSE w

CallWriteOutput(exceptions, opens) ==
    /\ pc = "iterating"
    /\ yielded # << >>
    /\ Len(file.writes) < MaxWrites
    /\ CallWriteOutputResult(yielded[Len(yielded)], write_output(exceptions, file.exists, opens))
    /\ UNCHANGED <<call, pc, gen, yielded>>

Next ==
    \/ \E a \in ChunkCalls : CallGetRasterChunks(a[1], a[2], a[3], a[4])
    \/ \E a \in MemoryCalls :
            CallGetMemoryLimitedRasterChunks(a[1], a[2], a[3], a[4], a[5])
    \/ ConsumeNext
    \/ \E e \in BOOLEAN, s \in SourceStates, x \in 1..MaxDim, y \in 1..MaxDim,
          k \in BOOLEAN, c \in MaxChunkSizes :
            CallCreateWgs84AreaRaster(e, s, x, y, k, c)
    \/ \E c \in AreaRasterCreateCalls : CreateEmptyRaster(c)
    \/ \E e \in BOOLEAN, o \in BOOLEAN, n \in BOOLEAN : WriteNextChunk(e, o, n)

Spec == Init /\ [][Next]_vars

\* the runs of a caller that requests a chunk plan and drives raster I/O
\* from it with create_empty_raster and write_output
CallerNext ==
    \/ \E a \in CallerChunkCalls : CallGetRasterChunks(a[1], a[2], a[3], a[4])
    \/ ConsumeNext
    \/ \E c \in CreateCalls : CallCreateEmptyRaster(c)
    \/ \E e \in BOOLEAN, o \in BOOLEAN : CallWriteOutput(e, o)

CallerSpec == Init /\ [][CallerNext]_vars

(***************************************************************************)
(* Reference values the properties are stated against, in exact integer    *)
(* arithmetic.                                                             *)
(***************************************************************************)
IntLe(a, b) == IntCmp(a, b) <= 0

IntLt(a, b) == IntCmp(a, b) < 0

IntMin(a, b) == IF IntLt(a, b) THEN a ELSE b

CeilOfQuotient(qr) ==
    IntMake(1, IF qr[2] = << >> THEN qr[1] ELSE BAdd(qr[1], <<1>>))

\* ceil(a / b) for positive ints a and b
ExactCeilDiv(a, b) == CeilOfQuotient(BDivMod(a.m, b.m))

\* floor(a / b) for positive ints a and b
ExactFloorDiv(a, b) == IntMake(1, BDivMod(a.m, b.m)[1])

\* floor(sqrt(a)) for an int a >= 0
ExactSqrt(a) == IntMake(1, BSqrt(a.m))

IsIntBound(r) ==
    /\ r.x_off.t = "int"
    /\ r.y_off.t = "int"
    /\ r.x_size.t = "int"
    /\ r.y_size.t = "int"

\* the generator was given four ints
GenHasInts ==
    /\ gen.state # "none"
    /\ gen.width.t = "int"
    /\ gen.height.t = "int"
    /\ gen.chunk_width.t = "int"
    /\ gen.chunk_height.t = "int"

\* ... all of them positive
GenValidInts ==
    /\ GenHasInts
    /\ gen.width.s > 0
    /\ gen.height.s > 0
    /\ gen.chunk_width.s > 0
    /\ gen.chunk_height.s > 0

\* ... at least one of them zero or negative
GenInvalidInts == GenHasInts /\ ~GenValidInts

\* the tile of chunk column col and chunk row row, clipped to the grid
ExactChunk(w, h, cw, ch, col, row) ==
    RasterBound(IntMul(col, cw), IntMul(row, ch),
                IntMin(cw, IntSub(w, IntMul(col, cw))),
                IntMin(ch, IntSub(h, IntMul(row, ch))))

\* element k (from 0) of the column-major tiling: col = k div nRows,
\* row = k mod nRows
ColumnMajorChunk(w, h, cw, ch, k) ==
    LET qr == BDivMod(BFromInt(k), ExactCeilDiv(h, ch).m)
    IN  ExactChunk(w, h, cw, ch, IntMake(1, qr[1]), IntMake(1, qr[2]))

\* element k (from 0) of the row-major tiling: row = k div nCols,
\* col = k mod nCols
RowMajorChunk(w, h, cw, ch, k) ==
    LET qr == BDivMod(BFromInt(k), ExactCeilDiv(w, cw).m)
    IN  ExactChunk(w, h, cw, ch, IntMake(1, qr[2]), IntMake(1, qr[1]))

ChunkTotal(w, h, cw, ch) == IntMul(ExactCeilDiv(w, cw), ExactCeilDiv(h, ch))

\* what the consumer has received is the column-major tiling, as far as it
\* has come, and the whole of it once the generator is exhausted
IsColumnMajorTiling(w, h, cw, ch) ==
    /\ pc # "raised"
    /\ IntLe(PyInt(Len(yielded)), ChunkTotal(w, h, cw, ch))
    /\ \A k \in 1..Len(yielded) :
           yielded[k] = ColumnMajorChunk(w, h, cw, ch, k - 1)
    /\ pc = "done" => PyInt(Len(yielded)) = ChunkTotal(w, h, cw, ch)

\* the request is refused: nothing is ever received, and the only step left
\* to a consumer is the one that raises ValueError
IsRefused ==
    /\ yielded = << >>
    /\ pc \in {"iterating", "raised"}
    /\ pc = "iterating" => gen.state = "created"
    /\ pc = "raised" => error = "ValueError"

InsideGrid(r, w, h) ==
    /\ r.x_off.s >= 0
    /\ r.y_off.s >= 0
    /\ r.x_size.s > 0
    /\ r.y_size.s > 0
    /\ IntLe(IntAdd(r.x_off, r.x_size), w)
    /\ IntLe(IntAdd(r.y_off, r.y_size), h)

\* the rectangles r and q share no pixel
Disjoint(r, q) ==
    \/ IntLe(IntAdd(r.x_off, r.x_size), q.x_off)
    \/ IntLe(IntAdd(q.x_off, q.x_size), r.x_off)
    \/ IntLe(IntAdd(r.y_off, r.y_size), q.y_off)
    \/ IntLe(IntAdd(q.y_off, q.y_size), r.y_off)

RECURSIVE AreaSum(_, _)
AreaSum(lo, hi) ==
    IF lo > hi THEN PyInt(0)
    ELSE IF lo = hi THEN IntMul(yielded[lo].x_size, yielded[lo].y_size)
    ELSE IntAdd(AreaSum(lo, (lo + hi) \div 2),
                AreaSum((lo + hi) \div 2 + 1, hi))

(***************************************************************************)
(* C1: for positive integer arguments the rectangles get_raster_chunks     *)
(* yields lie inside the grid with x_size >= 1 and y_size >= 1, and once   *)
(* the generator is exhausted they are pairwise non-overlapping and their  *)
(* areas sum to width * height: every pixel of [0,width) x [0,height)      *)
(* lies in exactly one of them.                                            *)
(***************************************************************************)
C1_ExactCover ==
    GenValidInts =>
        /\ \A k \in 1..Len(yielded) :
               /\ IsIntBound(yielded[k])
               /\ InsideGrid(yielded[k], gen.width, gen.height)
        /\ pc = "done" =>
               /\ \A i \in 1..Len(yielded), j \in 1..Len(yielded) :
                      i < j => Disjoint(yielded[i], yielded[j])
               /\ AreaSum(1, Len(yielded)) = IntMul(gen.width, gen.height)

(***************************************************************************)
(* C2: for positive integer arguments get_raster_chunks yields exactly     *)
(* ceil(width/chunk_width) * ceil(height/chunk_height) rectangles in       *)
(* column-major order: element k = col * nRows + row is the tile of chunk  *)
(* column col and chunk row row, clipped to the grid.                      *)
(***************************************************************************)
C2_ColumnMajor ==
    GenValidInts =>
        IsColumnMajorTiling(gen.width, gen.height, gen.chunk_width,
                            gen.chunk_height)

(***************************************************************************)
(* C3: get_raster_chunks returns its chunks in row-major order (all chunks *)
(* of the first chunk row in increasing x_off, then the second chunk row,  *)
(* and so on), as its docstring says.                                      *)
(***************************************************************************)
C3_RowMajor ==
    GenValidInts =>
        \A k \in 1..Len(yielded) :
            yielded[k] = RowMajorChunk(gen.width, gen.height,
                                       gen.chunk_width, gen.chunk_height,
                                       k - 1)

(***************************************************************************)
(* C4: when any of the four integer arguments of get_raster_chunks is <= 0 *)
(* the operation fails with ValueError and the consumer never receives a   *)
(* rectangle.                                                              *)
(***************************************************************************)
C4_InvalidRejected == GenInvalidInts => IsRefused

\* a direct call with chunk_height = 0 has raised ValueError
C4_Witness ==
    /\ call.op = "get_raster_chunks"
    /\ call.width.s > 0 /\ call.height.s > 0 /\ call.chunk_width.s > 0
    /\ call.chunk_height = PyInt(0)
    /\ pc = "raised"
    /\ error = "ValueError"

\* a call of get_memory_limited_raster_chunks
IsMemoryCall == call.op = "get_memory_limited_raster_chunks"

\* ... with n_rasters >= 1 and the other four arguments positive
MemoryCallValid ==
    /\ IsMemoryCall
    /\ call.n_rasters.s > 0
    /\ call.width.s > 0
    /\ call.height.s > 0
    /\ call.memory_limit_MB.s > 0
    /\ call.bytes_per_pixel.s > 0

\* the two sides of the budget test, in bytes:
\* maxPixels = BudgetBytes / BytesPerStackedPixel as an exact rational
BudgetBytes == IntMul(call.memory_limit_MB, PyInt(1000000))

BytesPerStackedPixel == IntMul(call.n_rasters, call.bytes_per_pixel)

\* maxPixels > width * height
WholeRasterFits ==
    IntLt(IntMul(IntMul(call.width, call.height), BytesPerStackedPixel),
          BudgetBytes)

\* floor(sqrt(maxPixels)) for the exact maxPixels
ExactTileSize == ExactSqrt(ExactFloorDiv(BudgetBytes, BytesPerStackedPixel))

(***************************************************************************)
(* C5: for valid arguments (n_rasters >= 1, the others positive) with      *)
(* maxPixels = memory_limit_MB * 1e6 / (n_rasters * bytes_per_pixel)       *)
(* greater than width * height, get_memory_limited_raster_chunks yields    *)
(* exactly one rectangle, (0, 0, width, height).                           *)
(***************************************************************************)
C5_WholeRaster ==
    (MemoryCallValid /\ WholeRasterFits) =>
        /\ pc # "raised"
        /\ Len(yielded) <= 1
        /\ \A k \in 1..Len(yielded) :
               yielded[k] = RasterBound(PyInt(0), PyInt(0), call.width,
                                        call.height)
        /\ pc = "done" => Len(yielded) = 1

(***************************************************************************)
(* C6: for valid arguments with maxPixels <= width * height (equality      *)
(* included) get_memory_limited_raster_chunks yields the same ordered      *)
(* sequence as get_raster_chunks(width, height, size, size) with           *)
(* size = floor(sqrt(maxPixels)).                                          *)
(***************************************************************************)
C6_SquareTiles ==
    (MemoryCallValid /\ ~WholeRasterFits) =>
        IF ExactTileSize.s > 0
        THEN IsColumnMajorTiling(call.width, call.height, ExactTileSize,
                                 ExactTileSize)
        ELSE IsRefused

(***************************************************************************)
(* C7: every rectangle get_memory_limited_raster_chunks yields for valid   *)
(* arguments, in either branch, stays within the budget:                   *)
(* n_rasters * bytes_per_pixel * x_size * y_size <= memory_limit_MB * 1e6. *)
(***************************************************************************)
C7_WithinBudget ==
    MemoryCallValid =>
        \A k \in 1..Len(yielded) :
            /\ IsIntBound(yielded[k])
            /\ IntLe(IntMul(BytesPerStackedPixel,
                            IntMul(yielded[k].x_size, yielded[k].y_size)),
                     BudgetBytes)

(***************************************************************************)
(* C8: for valid arguments with maxPixels < 1 the tile size is 0 and       *)
(* consuming the result fails with ValueError: it never completes as an    *)
(* empty sequence, and no rectangle is received.                           *)
(***************************************************************************)
C8_BelowOnePixel ==
    (MemoryCallValid /\ IntLt(BudgetBytes, BytesPerStackedPixel)) => IsRefused

(***************************************************************************)
(* C9: for all integer arguments of get_memory_limited_raster_chunks, if   *)
(* width <= 0, height <= 0, memory_limit_MB <= 0, bytes_per_pixel <= 0 or  *)
(* n_rasters * bytes_per_pixel <= 0, no rectangle is ever yielded and the  *)
(* operation fails with ValueError instead of completing.                  *)
(***************************************************************************)
C9_NonPositiveRejected ==
    (/\ IsMemoryCall
     /\ \/ call.width.s <= 0
        \/ call.height.s <= 0
        \/ call.memory_limit_MB.s <= 0
        \/ call.bytes_per_pixel.s <= 0
        \/ BytesPerStackedPixel.s <= 0)
    => /\ yielded = << >>
       /\ pc \in {"iterating", "raised"}
       /\ pc = "raised" => error = "ValueError"

(***************************************************************************)
(* C10: an invalid chunking request fails before any raster I/O: in a run  *)
(* where a caller has requested a chunk plan with invalid arguments and    *)
(* drives I/O from it, once the ValueError of the request has been raised  *)
(* no output file exists.                                                  *)
(***************************************************************************)
C10_FailsBeforeIO ==
    (/\ gen.state # "none"
     /\ InvalidChunkArgs(gen.width, gen.height, gen.chunk_width,
                         gen.chunk_height)
     /\ pc = "raised"
     /\ error = "ValueError")
    => ~file.exists

\* a call of create_wgs84_area_raster on a north-up raster with at least one
\* column and one row, with max_chunk_size >= 1, that has requested its plan
IsAreaRasterRun ==
    /\ call.op = "create_wgs84_area_raster"
    /\ ~call.skew
    /\ call.x_size >= 1
    /\ call.y_size >= 1
    /\ call.max_chunk_size >= 1
    /\ gen.state # "none"

\* x has an integer value (an int, or a float without fractional part)
IsIntegral(x) == x.t = "int" \/ FIsIntegral(x)

\* pixel column c lies in [x_off, x_off + x_size) of the write w
WritesColumn(w, c) ==
    /\ PyLe(w.x_off, PyInt(c))
    /\ PyLt(PySub(PyInt(c), w.x_off), w.x_size)

(***************************************************************************)
(* C11: for a source raster with RasterXSize >= 1 and RasterYSize >= 1 and *)
(* max_chunk_size >= 1, create_wgs84_area_raster gives its chunk plan a    *)
(* positive integer chunk width, every chunk it receives has y_size =      *)
(* RasterYSize, every write has integer x_off >= 0, integer x_size >= 1    *)
(* and y_off = 0, and once the loop over the chunks has ended (at its end  *)
(* or on a repeat count that was refused) every pixel column of            *)
(* [0, RasterXSize) has been written exactly once.                         *)
(***************************************************************************)
C11_ColumnsOnce ==
    IsAreaRasterRun =>
        /\ IsIntegral(gen.chunk_width) /\ PyIsPositive(gen.chunk_width)
        /\ \A k \in 1..Len(yielded) : yielded[k].y_size = PyInt(call.y_size)
        /\ \A k \in 1..Len(file.writes) :
               /\ IsIntegral(file.writes[k].x_off)
               /\ ~PyIsNegative(file.writes[k].x_off)
               /\ IsIntegral(file.writes[k].x_size)
               /\ PyLe(PyInt(1), file.writes[k].x_size)
               /\ file.writes[k].y_off = PyInt(0)
        /\ (pc = "done" \/ (pc = "raised" /\ error = "TypeError")) =>
               \A c \in 0..(call.x_size - 1) :
                   Cardinality({k \in 1..Len(file.writes) :
                                   WritesColumn(file.writes[k], c)}) = 1

=============================================================================
